---- MODULE Spec2Model ----
(***************************************************************************)
(* RedisStore (store.go): the session store kept in Redis as one hash per  *)
(* session and one sorted set per user, driven by WATCH/MULTI/EXEC.        *)
(*                                                                         *)
(* Strings are sequences of tokens; ":" and ";" are tokens of their own,   *)
(* every other token stands for a run of characters free of both.          *)
(* Time is counted in ticks (the model's nanoseconds), Millisecond ticks   *)
(* to the millisecond.                                                     *)
(***************************************************************************)
EXTENDS Integers, Sequences, FiniteSets, TLC

\* ------------------------------------------------------------------ bounds
\* The server clock stops at MaxTime ticks.
MaxTime == 4
\* Sessions expire at 1..MaxExp ticks.
MaxExp == 2
\* Operations started in one behaviour.
MaxOps == 3
\* Operations started in one behaviour of SpecReuse.
MaxReuseOps == 4
MaxSeeds == 3

\* time.Millisecond, scaled down from 1000000 to keep the clock small.
Millisecond == 2
Second == 1000 * Millisecond

NoExp == 0 - 1

\* ----------------------------------------------------------------- strings
Colon == ":"
Semi == ";"

RECURSIVE FirstIndex(_, _, _)
\* index of the first token equal to sep at or after position i, 0 when none
FirstIndex(s, sep, i) ==
    IF i > Len(s) THEN 0
    ELSE IF s[i] = sep THEN i
    ELSE FirstIndex(s, sep, i + 1)

RECURSIVE Split(_, _)
\* strings.Split(s, sep) for a one-token separator
Split(s, sep) ==
    LET k == FirstIndex(s, sep, 1) IN
    IF k = 0 THEN <<s>>
    ELSE <<SubSeq(s, 1, k - 1)>> \o Split(SubSeq(s, k + 1, Len(s)), sep)

RECURSIVE Concat(_)
Concat(ss) == IF ss = <<>> THEN <<>> ELSE Head(ss) \o Concat(Tail(ss))

Range(f) == {f[x] : x \in DOMAIN f}

\* the orders in which a Go range statement may visit the keys of a map
Orders(S) == {o \in [1..Cardinality(S) -> S] : Range(o) = S}

\* ---------------------------------------------------------------- encoding
\* metaToString, for the iteration order o of the map's keys
metaToString(mm, o) ==
    Concat([i \in 1..Len(o) |-> o[i] \o <<Colon>> \o mm[o[i]] \o <<Semi>>])

RECURSIVE metaFold(_, _)
\* the loop of metaFromString over the split parts, later parts overwriting
metaFold(parts, meta) ==
    IF parts = <<>> THEN meta
    ELSE LET vv == Split(Head(parts), Colon) IN
         IF Len(vv) # 2 THEN metaFold(Tail(parts), meta)
         ELSE metaFold(Tail(parts),
                       [k \in DOMAIN meta \cup {vv[1]} |->
                           IF k = vv[1] THEN vv[2] ELSE meta[k]])

\* a nil map and an empty map are both the empty function
NilMeta == [k \in {} |-> <<>>]

metaFromString(s) ==
    IF s = <<>> THEN NilMeta ELSE metaFold(Split(s, Semi), NilMeta)

\* A time.Time is an instant (nano, in ticks) and a zone offset in seconds.
\* Format(time.RFC3339Nano) prints the wall clock of that zone and the offset
\* in whole minutes; time.Parse reads both back and subtracts the offset.
Zones == {0, 3600, 0 - 5400}
Nanos == 0..(MaxTime + MaxExp)

ZoneMinutes(zone) == IF zone < 0 THEN 0 - ((0 - zone) \div 60) ELSE zone \div 60
ZoneText(zone) == IF zone = 0 THEN "Z" ELSE ToString(ZoneMinutes(zone))

Format(t) == <<ToString(t.nano + t.zone * Second), ZoneText(t.zone)>>

\* The first instant of year 10000, on the scale of the model: Format prints
\* the year of a later wall clock with five digits, time.Parse reads four.
Year10000 == 10000 * Second

\* the wall clocks and offsets whose text time.Parse is asked to read here
Walls == {n + z * Second : n \in Nanos \cup {Year10000}, z \in Zones}
ZoneTexts == {ZoneText(z) : z \in Zones}
IsRFC3339(v) ==
    /\ Len(v) = 2
    /\ \E w \in Walls : w < Year10000 /\ ToString(w) = v[1]
    /\ v[2] \in ZoneTexts

Parse(v) ==
    LET wall == CHOOSE w \in Walls : ToString(w) = v[1]
        mins == IF v[2] = "Z" THEN 0
                ELSE ZoneMinutes(CHOOSE z \in Zones : ZoneText(z) = v[2])
    IN [nano |-> wall - mins * 60 * Second, zone |-> mins * 60]

ZeroTime == [nano |-> 0, zone |-> 0]

\* A net.IP is a byte slice: nil, the 4-byte or the 16-byte form of an IPv4
\* address, or an IPv6 address. IP.String prints both IPv4 forms alike and
\* net.ParseIP always answers the 16-byte form.
NilIP == [len |-> 0, addr |-> ""]
IPString(ip) == IF ip.len = 0 THEN <<"<nil>">> ELSE <<ip.addr>>
ParseIP(v) ==
    IF v \in {<<"127.0.0.1">>, <<"::1">>} THEN [len |-> 16, addr |-> v[1]]
    ELSE NilIP
\* IP.Equal: an IPv4 address equals its 16-byte form
IPEqual(a, b) == a.addr = b.addr

\* ----------------------------------------------------------------- session
ZeroSession ==
    [ID |-> <<>>, UserKey |-> <<>>, CreatedAt |-> ZeroTime, ExpiresAt |-> ZeroTime,
     IP |-> NilIP, OS |-> <<>>, Browser |-> <<>>, Meta |-> NilMeta]

HashFields == {"created_at", "expires_at", "id", "user_key", "ip", "agent_os",
               "agent_browser", "meta"}

\* the field/value pairs of Create's HMSET, for the iteration order o of s.Meta
HashOf(s, o) ==
    [f \in HashFields |->
        CASE f = "created_at" -> Format(s.CreatedAt)
          [] f = "expires_at" -> Format(s.ExpiresAt)
          [] f = "id" -> s.ID
          [] f = "user_key" -> s.UserKey
          [] f = "ip" -> IPString(s.IP)
          [] f = "agent_os" -> s.OS
          [] f = "agent_browser" -> s.Browser
          [] f = "meta" -> metaToString(s.Meta, o)]

\* vv[f] of a Go map: the empty string for an absent field
Field(vv, f) == IF f \in DOMAIN vv THEN vv[f] ELSE <<>>

\* parse: the error result comes first, as in the code the zero session does
parseFails(vv) ==
    \/ ~IsRFC3339(Field(vv, "created_at"))
    \/ ~IsRFC3339(Field(vv, "expires_at"))

parse(vv) ==
    IF parseFails(vv) THEN ZeroSession
    ELSE [ID |-> Field(vv, "id"),
          UserKey |-> Field(vv, "user_key"),
          CreatedAt |-> Parse(Field(vv, "created_at")),
          ExpiresAt |-> Parse(Field(vv, "expires_at")),
          IP |-> ParseIP(Field(vv, "ip")),
          OS |-> Field(vv, "agent_os"),
          Browser |-> Field(vv, "agent_browser"),
          Meta |-> metaFromString(Field(vv, "meta"))]

\* ------------------------------------------------------------------- state
VARIABLES
    prefix,   \* RedisStore.prefix
    now,      \* the clock, in ticks
    db,       \* the Redis keyspace: key -> [type, val, exp]
    cl,       \* per client: the operation in progress on its connection
    ops       \* operations started so far, counted up to MaxOps

vars == <<prefix, now, db, cl, ops>>

Clients == {"c1", "c2"}

\* key prepares a key for the appropriate namespace
key(user, v) ==
    prefix \o <<Colon>> \o <<IF user THEN "user" ELSE "session">> \o <<Colon>> \o v

\* extract strips prefix and namespace data from the key
extract(v) ==
    LET strs == Split(v, Colon) IN
    IF Len(strs) # 3 THEN <<>> ELSE strs[3]

\* ------------------------------------------------------------------- Redis
NowMs(t) == t \div Millisecond

Exists(d, k) == k \in DOMAIN d

Drop(d, k) == [x \in DOMAIN d \ {k} |-> d[x]]
Put(d, k, v) == [x \in DOMAIN d \cup {k} |-> IF x = k THEN v ELSE d[x]]

\* PTTL: -2 for no key, -1 for a key without expiration, else the remainder
PTTL(d, k, t) ==
    IF ~Exists(d, k) THEN 0 - 2
    ELSE IF d[k].exp = NoExp THEN 0 - 1
    ELSE d[k].exp - NowMs(t)

\* HGETALL: the empty map for no key
HGETALL(d, k) == IF Exists(d, k) THEN d[k].val ELSE [f \in {} |-> <<>>]

\* the order of two members of a sorted set: by score, then by member
TokenRank(tok) == CASE tok = Colon -> 0 [] tok = "a" -> 1 [] tok = "b" -> 2 [] OTHER -> 3
RECURSIVE LexLess(_, _)
LexLess(a, b) ==
    IF b = <<>> THEN FALSE
    ELSE IF a = <<>> THEN TRUE
    ELSE IF Head(a) = Head(b) THEN LexLess(Tail(a), Tail(b))
    ELSE TokenRank(Head(a)) < TokenRank(Head(b))
Before(z, m1, m2) == z[m1] < z[m2] \/ (z[m1] = z[m2] /\ LexLess(m1, m2))

\* ZRANGEBYSCORE key -inf +inf: every member, in ascending order
ZRANGEBYSCORE(d, k) ==
    IF ~Exists(d, k) THEN <<>>
    ELSE LET z == d[k].val
             M == DOMAIN z
         IN [i \in 1..Cardinality(M) |->
                CHOOSE m \in M : Cardinality({x \in M : Before(z, x, m)}) = i - 1]

\* One queued command applied at EXEC, at server time ms: the keyspace after
\* it and the keys it signalled as modified. A sorted set left empty is deleted.
Result(d, touched) == [db |-> d, touched |-> touched]

DoDEL(d, k) == IF Exists(d, k) THEN Result(Drop(d, k), {k}) ELSE Result(d, {})

ZKeep(d, k, keep) ==
    IF keep = DOMAIN d[k].val THEN Result(d, {})
    ELSE IF keep = {} THEN Result(Drop(d, k), {k})
    ELSE Result(Put(d, k, [d[k] EXCEPT !.val = [m \in keep |-> d[k].val[m]]]), {k})

DoZREM(d, k, member) ==
    IF ~Exists(d, k) THEN Result(d, {})
    ELSE ZKeep(d, k, DOMAIN d[k].val \ {member})

DoZREMRANGEBYSCORE(d, k, max) ==
    IF ~Exists(d, k) THEN Result(d, {})
    ELSE ZKeep(d, k, {m \in DOMAIN d[k].val : d[k].val[m] > max})

DoZADD(d, k, score, member) ==
    LET old == IF Exists(d, k) THEN d[k] ELSE [type |-> "zset", val |-> <<>>, exp |-> NoExp]
        z == [m \in DOMAIN old.val \cup {member} |->
                 IF m = member THEN score ELSE old.val[m]]
    IN IF Exists(d, k) /\ z = old.val THEN Result(d, {})
       ELSE Result(Put(d, k, [old EXCEPT !.val = z]), {k})

DoPEXPIREAT(d, k, when, ms) ==
    IF ~Exists(d, k) THEN Result(d, {})
    ELSE IF when <= ms THEN Result(Drop(d, k), {k})
    ELSE Result(Put(d, k, [d[k] EXCEPT !.exp = when]), {k})

DoHMSET(d, k, fields) ==
    LET old == IF Exists(d, k) THEN d[k] ELSE [type |-> "hash", val |-> <<>>, exp |-> NoExp]
        h == [f \in DOMAIN old.val \cup DOMAIN fields |->
                 IF f \in DOMAIN fields THEN fields[f] ELSE old.val[f]]
    IN Result(Put(d, k, [old EXCEPT !.val = h]), {k})

Apply(d, c, ms) ==
    CASE c.cmd = "DEL" -> DoDEL(d, c.key)
      [] c.cmd = "ZREM" -> DoZREM(d, c.key, c.member)
      [] c.cmd = "ZREMRANGEBYSCORE" -> DoZREMRANGEBYSCORE(d, c.key, c.max)
      [] c.cmd = "ZADD" -> DoZADD(d, c.key, c.score, c.member)
      [] c.cmd = "PEXPIREAT" -> DoPEXPIREAT(d, c.key, c.when, ms)
      [] c.cmd = "HMSET" -> DoHMSET(d, c.key, c.fields)

RECURSIVE ApplyAll(_, _, _)
\* the queued commands of a transaction, applied in order
ApplyAll(r, queue, ms) ==
    IF queue = <<>> THEN r
    ELSE LET n == Apply(r.db, Head(queue), ms) IN
         ApplyAll(Result(n.db, r.touched \cup n.touched), Tail(queue), ms)

\* ----------------------------------------------------------------- clients
\* A client is one call of a store method on the connection it took from the
\* pool: op is the method, pc the command it sends next, the other fields its
\* arguments, locals and, at pc "done", what it returns. conn tells whether
\* pool.GetContext gave the call a connection, watched and dirty are
\* the server's side of WATCH, multi is the open MULTI block, closed the
\* command the deferred c.Close() sent.
EmptyMap == [f \in {} |-> <<>>]

Idle ==
    [op |-> "idle", pc |-> "idle", conn |-> FALSE, held |-> 0,
     s |-> ZeroSession, id |-> <<>>, key |-> <<>>, expIDs |-> <<>>,
     watched |-> {}, dirty |-> FALSE, multi |-> FALSE, closed |-> "none",
     uExpMilli |-> 0, now |-> 0, uKey |-> <<>>, ids |-> <<>>, i |-> 0,
     ss |-> <<>>, res |-> ZeroSession, found |-> FALSE, err |-> "nil",
     reply |-> "none"]

\* the pooled connection's Close: DISCARD inside a MULTI block, else UNWATCH
\* when a WATCH was sent, before the connection goes back to the pool
Close(multi, watch) ==
    IF multi THEN "DISCARD" ELSE IF watch THEN "UNWATCH" ELSE "none"

\* mutant: the connection is not closed
ReturnUnclosed(c, r, err) ==
    [r EXCEPT !.pc = "done", !.err = err]

\* return: the deferred c.Close() leaves the connection with nothing watched
\* and no MULTI block open. The arguments and the keys read stay on record
\* beside the result.
Return(c, r, err) ==
    [Idle EXCEPT !.op = r.op, !.pc = "done", !.conn = r.conn, !.s = r.s, !.id = r.id,
                 !.key = r.key, !.expIDs = r.expIDs, !.uKey = r.uKey,
                 !.ids = r.ids, !.err = err,
                 !.held = IF r.conn THEN r.held - 1 ELSE r.held,
                 !.closed = Close(r.multi, r.watched # {})]

\* WATCH
Watch(r, k) == [r EXCEPT !.watched = @ \cup {k}]

\* every connection watching one of the keys has its next EXEC aborted
Touch(touched) ==
    [c \in Clients |->
        IF cl[c].watched \cap touched # {} THEN [cl[c] EXCEPT !.dirty = TRUE]
        ELSE cl[c]]

\* ------------------------------------------------------------------ inputs
IDs == {<<"a">>, <<"b">>}
UserKeys == {<<"x">>, <<"y">>}
Prefixes == {<<"p">>, <<"p", Colon, "q">>}
ExpLists == {<<>>, <<<<"a">>>>, <<<<"b">>>>, <<<<"a">>, <<"b">>>>}

Profiles ==
    {[created |-> 0, zone |-> 0, IP |-> [len |-> 16, addr |-> "127.0.0.1"],
      Meta |-> NilMeta]}

SessionsOf(P) ==
    {[ID |-> id, UserKey |-> u,
      CreatedAt |-> [nano |-> p.created, zone |-> p.zone],
      ExpiresAt |-> [nano |-> e, zone |-> p.zone],
      IP |-> p.IP, OS |-> <<"gnu/linux">>, Browser |-> <<"firefox">>,
      Meta |-> p.Meta] : id \in IDs, u \in UserKeys, e \in 1..MaxExp, p \in P}

Sessions == SessionsOf(Profiles)

\* the profiles of SpecSeq: other zones, the other forms of an IP, metadata,
\* a creation time in year 10000
SeqProfiles ==
    Profiles \cup
    {[created |-> 0, zone |-> 3600, IP |-> [len |-> 4, addr |-> "127.0.0.1"],
      Meta |-> [k \in {<<"k">>} |-> <<"v">>]],
     [created |-> 0, zone |-> 0 - 5400, IP |-> NilIP,
      Meta |-> [k \in {<<"k">>, <<>>} |-> IF k = <<>> THEN <<>> ELSE <<"v">>]],
     [created |-> Year10000, zone |-> 0, IP |-> NilIP, Meta |-> NilMeta]}

\* sessions that expire after the first millisecond
LiveSessions == {s \in Sessions : s.ExpiresAt.nano \div Millisecond > 0}

\* mutant: the error of pool.GetContext is not looked at
BeginUnchecked(c, r) ==
    /\ cl[c].pc \in {"idle", "done"}
    /\ ops < MaxOps
    /\ ops' = ops + 1
    /\ \E ok \in BOOLEAN : cl' = [cl EXCEPT ![c] = [r EXCEPT !.conn = ok]]
    /\ UNCHANGED <<prefix, now, db>>

\* mutant: a second connection is taken from the pool
BeginTwice(c, r) ==
    /\ cl[c].pc \in {"idle", "done"}
    /\ ops < MaxOps
    /\ ops' = ops + 1
    /\ \/ cl' = [cl EXCEPT ![c] = [r EXCEPT !.conn = TRUE, !.held = @ + 2]]
       \/ cl' = [cl EXCEPT ![c] = Return(c, r, "conn")]
    /\ UNCHANGED <<prefix, now, db>>

\* sessions that expire while the clock runs, or after it has stopped
LongSessions ==
    {[s EXCEPT !.ExpiresAt.nano = e] : s \in Sessions, e \in {MaxExp, MaxTime, MaxTime + MaxExp}}

\* pool.GetContext: the call starts with a connection, or returns the error
Begin(c, r) ==
    /\ cl[c].pc \in {"idle", "done"}
    /\ ops < MaxOps
    /\ ops' = ops + 1
    /\ \/ cl' = [cl EXCEPT ![c] = [r EXCEPT !.conn = TRUE, !.held = @ + 1]]
       \/ cl' = [cl EXCEPT ![c] = Return(c, r, "conn")]
    /\ UNCHANGED <<prefix, now, db>>

\* a step of client c that sends one command and changes no key
Local(c, r) ==
    /\ cl' = [cl EXCEPT ![c] = r]
    /\ UNCHANGED <<prefix, now, db, ops>>

At(c, op, pc) == cl[c].op = op /\ cl[c].pc = pc

\* _, err = c.Do("EXEC"); return err. The reply of EXEC is "ok" (the array of
\* the queued commands' replies) or "nil" (the transaction was discarded);
\* redigo's Do hands either back with a nil error.
ExecErr(reply) == "nil"

\* mutant: a discarded transaction is tried again from the first WATCH
ExecRetried(c, queue) ==
    LET after == [cl[c] EXCEPT !.multi = FALSE, !.watched = {}] IN
    IF cl[c].dirty
    THEN /\ cl' = [cl EXCEPT ![c] =
                      [after EXCEPT !.dirty = FALSE,
                                    !.pc = IF cl[c].op = "DeleteByUserKey"
                                           THEN "watchU" ELSE "watchS"]]
         /\ UNCHANGED <<prefix, now, db, ops>>
    ELSE LET r == ApplyAll(Result(db, {}), queue, NowMs(now)) IN
         /\ db' = r.db
         /\ cl' = [Touch(r.touched) EXCEPT
                      ![c] = [Return(c, after, ExecErr("ok")) EXCEPT !.reply = "ok"]]
         /\ UNCHANGED <<prefix, now, ops>>

\* EXEC: a connection whose watched key was modified gets the nil reply and
\* nothing is applied. Otherwise the queue is applied as one step. Either way
\* the MULTI block is over and nothing stays watched.
Exec(c, queue) ==
    LET after == [cl[c] EXCEPT !.multi = FALSE, !.watched = {}] IN
    IF cl[c].dirty
    THEN /\ cl' = [cl EXCEPT ![c] =
                      [Return(c, after, ExecErr("nil")) EXCEPT !.reply = "nil"]]
         /\ UNCHANGED <<prefix, now, db, ops>>
    ELSE LET r == ApplyAll(Result(db, {}), queue, NowMs(now)) IN
         /\ db' = r.db
         /\ cl' = [Touch(r.touched) EXCEPT
                      ![c] = [Return(c, after, ExecErr("ok")) EXCEPT !.reply = "ok"]]
         /\ UNCHANGED <<prefix, now, ops>>

\* ------------------------------------------------------------------ Create
sKeyOf(r) == key(FALSE, r.s.ID)
uKeyOf(r) == key(TRUE, r.s.UserKey)
UnixNano(t) == t.nano

CreateBegin(c, S) ==
    \E s \in S : Begin(c, [Idle EXCEPT !.op = "Create", !.pc = "watchS", !.s = s])

CreateWatchS(c) ==
    /\ At(c, "Create", "watchS")
    /\ Local(c, [Watch(cl[c], sKeyOf(cl[c])) EXCEPT !.pc = "watchU"])

CreateWatchU(c) ==
    /\ At(c, "Create", "watchU")
    /\ Local(c, [Watch(cl[c], uKeyOf(cl[c])) EXCEPT !.pc = "exists"])

\* mutant: the reply of EXISTS is not looked at
CreateExistsUnchecked(c) ==
    /\ At(c, "Create", "exists")
    /\ Local(c, [cl[c] EXCEPT !.pc = "pttl"])

\* check if session key is already present
CreateExists(c) ==
    /\ At(c, "Create", "exists")
    /\ IF Exists(db, sKeyOf(cl[c]))
       THEN Local(c, Return(c, cl[c], "ErrDuplicateID"))
       ELSE Local(c, [cl[c] EXCEPT !.pc = "pttl"])

\* find previous user session set's expiration time
CreatePTTL(c) ==
    /\ At(c, "Create", "pttl")
    /\ Local(c, [cl[c] EXCEPT !.uExpMilli = PTTL(db, uKeyOf(cl[c]), now),
                              !.pc = "multi"])

\* the expiration arithmetic: the reply of PTTL plus the current time in
\* milliseconds, or the session's expiration if that is later
uExpMilli(pttl, t, s) ==
    LET u == pttl + t \div Millisecond
        sExpMilli == UnixNano(s.ExpiresAt) \div Millisecond
    IN IF sExpMilli > u THEN sExpMilli ELSE u

\* mutant: the session's expiration is not compared with the old one
CreateMultiNoMax(c) ==
    /\ At(c, "Create", "multi")
    /\ Local(c, [cl[c] EXCEPT !.now = now,
                              !.uExpMilli = cl[c].uExpMilli + now \div Millisecond,
                              !.multi = TRUE,
                              !.pc = "exec"])

\* time.Now(), the expiration arithmetic, MULTI and the queued commands
CreateMulti(c) ==
    /\ At(c, "Create", "multi")
    /\ Local(c, [cl[c] EXCEPT !.now = now,
                              !.uExpMilli = uExpMilli(cl[c].uExpMilli, now, cl[c].s),
                              !.multi = TRUE,
                              !.pc = "exec"])

\* mutant: the session key is added before the expired members are removed
CreateQueueAddFirst(r, o) ==
    LET sExpNano == UnixNano(r.s.ExpiresAt) IN
    <<[cmd |-> "ZADD", key |-> uKeyOf(r), score |-> sExpNano, member |-> sKeyOf(r)],
      [cmd |-> "ZREMRANGEBYSCORE", key |-> uKeyOf(r), max |-> r.now],
      [cmd |-> "PEXPIREAT", key |-> uKeyOf(r), when |-> r.uExpMilli],
      [cmd |-> "HMSET", key |-> sKeyOf(r), fields |-> HashOf(r.s, o)],
      [cmd |-> "PEXPIREAT", key |-> sKeyOf(r), when |-> sExpNano \div Millisecond]>>

\* mutant: the user session set's expiration time is not updated
CreateQueueNoIndexTTL(r, o) ==
    LET sExpNano == UnixNano(r.s.ExpiresAt) IN
    <<[cmd |-> "ZREMRANGEBYSCORE", key |-> uKeyOf(r), max |-> r.now],
      [cmd |-> "ZADD", key |-> uKeyOf(r), score |-> sExpNano, member |-> sKeyOf(r)],
      [cmd |-> "HMSET", key |-> sKeyOf(r), fields |-> HashOf(r.s, o)],
      [cmd |-> "PEXPIREAT", key |-> sKeyOf(r), when |-> sExpNano \div Millisecond]>>

\* mutant: the session key is not added to the user session set
CreateQueueNoZADD(r, o) ==
    LET sExpNano == UnixNano(r.s.ExpiresAt) IN
    <<[cmd |-> "ZREMRANGEBYSCORE", key |-> uKeyOf(r), max |-> r.now],
      [cmd |-> "PEXPIREAT", key |-> uKeyOf(r), when |-> r.uExpMilli],
      [cmd |-> "HMSET", key |-> sKeyOf(r), fields |-> HashOf(r.s, o)],
      [cmd |-> "PEXPIREAT", key |-> sKeyOf(r), when |-> sExpNano \div Millisecond]>>

\* the commands Create queues, for the iteration order o of s.Meta
CreateQueue(r, o) ==
    LET sExpNano == UnixNano(r.s.ExpiresAt) IN
    <<[cmd |-> "ZREMRANGEBYSCORE", key |-> uKeyOf(r), max |-> r.now],
      [cmd |-> "ZADD", key |-> uKeyOf(r), score |-> sExpNano, member |-> sKeyOf(r)],
      [cmd |-> "PEXPIREAT", key |-> uKeyOf(r), when |-> r.uExpMilli],
      [cmd |-> "HMSET", key |-> sKeyOf(r), fields |-> HashOf(r.s, o)],
      [cmd |-> "PEXPIREAT", key |-> sKeyOf(r), when |-> sExpNano \div Millisecond]>>

CreateExec(c) ==
    /\ At(c, "Create", "exec")
    /\ \E o \in Orders(DOMAIN cl[c].s.Meta) : Exec(c, CreateQueue(cl[c], o))

\* what Create does and returns when every command is served, one after the
\* other and with no other client, from keyspace d at tick t
Create(d, s, o, t) ==
    LET r == [s |-> s, now |-> t,
              uExpMilli |-> uExpMilli(PTTL(d, key(TRUE, s.UserKey), t), t, s)]
    IN IF Exists(d, key(FALSE, s.ID)) THEN [db |-> d, err |-> "ErrDuplicateID"]
       ELSE [db |-> ApplyAll(Result(d, {}), CreateQueue(r, o), NowMs(t)).db,
             err |-> "nil"]

\* --------------------------------------------------------------- FetchByID
\* mutant: the empty map goes to parse
FetchByIDNoLenCheck(d, id) ==
    LET vv == HGETALL(d, key(FALSE, id)) IN
    IF parseFails(vv) THEN [res |-> ZeroSession, found |-> FALSE, err |-> "parse"]
    ELSE [res |-> parse(vv), found |-> TRUE, err |-> "nil"]

\* what FetchByID returns when its HGETALL is served from keyspace d
FetchByID(d, id) ==
    LET vv == HGETALL(d, key(FALSE, id)) IN
    IF DOMAIN vv = {} THEN [res |-> ZeroSession, found |-> FALSE, err |-> "nil"]
    ELSE IF parseFails(vv) THEN [res |-> ZeroSession, found |-> FALSE, err |-> "parse"]
    ELSE [res |-> parse(vv), found |-> TRUE, err |-> "nil"]

FetchByIDBegin(c) ==
    \E id \in IDs : Begin(c, [Idle EXCEPT !.op = "FetchByID", !.pc = "hgetall", !.id = id])

\* mutant: the error of parse is dropped
FetchByIDHGetAllErrDropped(c) ==
    /\ At(c, "FetchByID", "hgetall")
    /\ LET f == FetchByID(db, cl[c].id) IN
       Local(c, [Return(c, cl[c], "nil") EXCEPT !.res = f.res, !.found = f.found])

FetchByIDHGetAll(c) ==
    /\ At(c, "FetchByID", "hgetall")
    /\ LET f == FetchByID(db, cl[c].id) IN
       Local(c, [Return(c, cl[c], f.err) EXCEPT !.res = f.res, !.found = f.found])

\* ---------------------------------------------------------- FetchByUserKey
FetchByUserKeyBegin(c) ==
    \E u \in UserKeys :
        Begin(c, [Idle EXCEPT !.op = "FetchByUserKey", !.pc = "zrange", !.key = u])

FetchByUserKeyZRange(c) ==
    /\ At(c, "FetchByUserKey", "zrange")
    /\ LET ids == ZRANGEBYSCORE(db, key(TRUE, cl[c].key)) IN
       IF ids = <<>> THEN Local(c, Return(c, cl[c], "nil"))
       ELSE Local(c, [cl[c] EXCEPT !.ids = ids, !.i = 1, !.pc = "hgetall"])

\* mutant: a member without a hash ends the loop with an error
TurnMissingFails(d, member, ss) ==
    LET vv == HGETALL(d, member) IN
    IF DOMAIN vv = {} THEN [ss |-> <<>>, err |-> "ErrNil"]
    ELSE IF parseFails(vv) THEN [ss |-> <<>>, err |-> "parse"]
    ELSE [ss |-> Append(ss, parse(vv)), err |-> "nil"]

\* one turn of the loop over ids, its HGETALL served from keyspace d: the
\* list so far and the error that ends the loop, if any
Turn(d, member, ss) ==
    LET vv == HGETALL(d, member) IN
    IF DOMAIN vv = {} THEN [ss |-> ss, err |-> "nil"]
    ELSE IF parseFails(vv) THEN [ss |-> <<>>, err |-> "parse"]
    ELSE [ss |-> Append(ss, parse(vv)), err |-> "nil"]

\* mutant: after the last member the loop starts again
FetchByUserKeyHGetAllAgain(c) ==
    /\ At(c, "FetchByUserKey", "hgetall")
    /\ LET r == cl[c]
           t == Turn(db, r.ids[r.i], r.ss)
       IN IF t.err # "nil" THEN Local(c, Return(c, r, t.err))
          ELSE IF r.i = Len(r.ids) THEN Local(c, [r EXCEPT !.ss = <<>>, !.i = 1])
          ELSE Local(c, [r EXCEPT !.ss = t.ss, !.i = r.i + 1])

\* mutant: a member whose hash fails to parse is skipped
FetchByUserKeyHGetAllSkips(c) ==
    /\ At(c, "FetchByUserKey", "hgetall")
    /\ LET r == cl[c]
           t == Turn(db, r.ids[r.i], r.ss)
           ss == IF t.err # "nil" THEN r.ss ELSE t.ss
       IN IF r.i = Len(r.ids) THEN Local(c, [Return(c, r, "nil") EXCEPT !.ss = ss])
          ELSE Local(c, [r EXCEPT !.ss = ss, !.i = r.i + 1])

FetchByUserKeyHGetAll(c) ==
    /\ At(c, "FetchByUserKey", "hgetall")
    /\ LET r == cl[c]
           t == Turn(db, r.ids[r.i], r.ss)
       IN IF t.err # "nil" THEN Local(c, Return(c, r, t.err))
          ELSE IF r.i = Len(r.ids) THEN Local(c, [Return(c, r, "nil") EXCEPT !.ss = t.ss])
          ELSE Local(c, [r EXCEPT !.ss = t.ss, !.i = r.i + 1])

RECURSIVE FetchLoop(_, _, _)
FetchLoop(d, ids, ss) ==
    IF ids = <<>> THEN [ss |-> ss, err |-> "nil"]
    ELSE LET t == Turn(d, Head(ids), ss) IN
         IF t.err # "nil" THEN t ELSE FetchLoop(d, Tail(ids), t.ss)

\* what FetchByUserKey returns when every command is served from keyspace d,
\* by the key of the index and by the user key
FetchIndex(d, uKey) == FetchLoop(d, ZRANGEBYSCORE(d, uKey), <<>>)
FetchByUserKey(d, u) == FetchIndex(d, key(TRUE, u))

\* -------------------------------------------------------------- DeleteByID
DeleteByIDBegin(c) ==
    \E id \in IDs : Begin(c, [Idle EXCEPT !.op = "DeleteByID", !.pc = "watchS", !.id = id])

DeleteByIDWatchS(c) ==
    /\ At(c, "DeleteByID", "watchS")
    /\ Local(c, [Watch(cl[c], key(FALSE, cl[c].id)) EXCEPT !.pc = "hgetall"])

\* mutant: the empty map goes to parse
DeleteByIDHGetAllNoLenCheck(c) ==
    /\ At(c, "DeleteByID", "hgetall")
    /\ LET vv == HGETALL(db, key(FALSE, cl[c].id)) IN
       IF parseFails(vv) THEN Local(c, Return(c, cl[c], "parse"))
       ELSE Local(c, [cl[c] EXCEPT !.uKey = key(TRUE, parse(vv).UserKey),
                                   !.pc = "watchU"])

DeleteByIDHGetAll(c) ==
    /\ At(c, "DeleteByID", "hgetall")
    /\ LET vv == HGETALL(db, key(FALSE, cl[c].id)) IN
       IF DOMAIN vv = {} THEN Local(c, Return(c, cl[c], "nil"))
       ELSE IF parseFails(vv) THEN Local(c, Return(c, cl[c], "parse"))
       ELSE Local(c, [cl[c] EXCEPT !.uKey = key(TRUE, parse(vv).UserKey),
                                   !.pc = "watchU"])

\* mutant: the user session set is read without being watched
DeleteByIDWatchUSkipped(c) ==
    /\ At(c, "DeleteByID", "watchU")
    /\ Local(c, [cl[c] EXCEPT !.pc = "zrange"])

DeleteByIDWatchU(c) ==
    /\ At(c, "DeleteByID", "watchU")
    /\ Local(c, [Watch(cl[c], cl[c].uKey) EXCEPT !.pc = "zrange"])

DeleteByIDZRange(c) ==
    /\ At(c, "DeleteByID", "zrange")
    /\ Local(c, [cl[c] EXCEPT !.ids = ZRANGEBYSCORE(db, cl[c].uKey), !.pc = "multi"])

DeleteByIDMulti(c) ==
    /\ At(c, "DeleteByID", "multi")
    /\ Local(c, [cl[c] EXCEPT !.multi = TRUE, !.pc = "exec"])

\* mutant: the index is deleted whatever it lists
DeleteByIDQueueAlwaysDel(r) ==
    LET sKey == key(FALSE, r.id) IN
    <<[cmd |-> "ZREM", key |-> r.uKey, member |-> sKey],
      [cmd |-> "DEL", key |-> r.uKey],
      [cmd |-> "DEL", key |-> sKey]>>

\* mutant: the index is left alone
DeleteByIDQueueKeyOnly(r) == <<[cmd |-> "DEL", key |-> key(FALSE, r.id)]>>

\* the commands DeleteByID queues
DeleteByIDQueue(r) ==
    LET sKey == key(FALSE, r.id) IN
    <<[cmd |-> "ZREM", key |-> r.uKey, member |-> sKey]>>
    \o (IF Len(r.ids) = 1 /\ r.ids[1] = sKey
        THEN <<[cmd |-> "DEL", key |-> r.uKey]>> ELSE <<>>)
    \o <<[cmd |-> "DEL", key |-> sKey]>>

DeleteByIDExec(c) ==
    /\ At(c, "DeleteByID", "exec")
    /\ Exec(c, DeleteByIDQueue(cl[c]))

\* --------------------------------------------------------- DeleteByUserKey
DeleteByUserKeyBegin(c) ==
    \E u \in UserKeys, e \in ExpLists :
        Begin(c, [Idle EXCEPT !.op = "DeleteByUserKey", !.pc = "watchU",
                              !.key = u, !.expIDs = e])

DeleteByUserKeyWatchU(c) ==
    /\ At(c, "DeleteByUserKey", "watchU")
    /\ Local(c, [Watch(cl[c], key(TRUE, cl[c].key)) EXCEPT !.pc = "zrange"])

\* mutant: the empty reply is returned as redis.ErrNil
DeleteByUserKeyZRangeNilFails(c) ==
    /\ At(c, "DeleteByUserKey", "zrange")
    /\ LET ids == ZRANGEBYSCORE(db, key(TRUE, cl[c].key)) IN
       IF ids = <<>> THEN Local(c, Return(c, cl[c], "ErrNil"))
       ELSE Local(c, [cl[c] EXCEPT !.ids = ids, !.pc = "multi"])

DeleteByUserKeyZRange(c) ==
    /\ At(c, "DeleteByUserKey", "zrange")
    /\ Local(c, [cl[c] EXCEPT !.ids = ZRANGEBYSCORE(db, key(TRUE, cl[c].key)),
                              !.pc = "multi"])

DeleteByUserKeyMulti(c) ==
    /\ At(c, "DeleteByUserKey", "multi")
    /\ Local(c, [cl[c] EXCEPT !.multi = TRUE, !.pc = "exec"])

\* the inner loop: the extracted ID is one of the exceptions
Excepted(member, expIDs) == \E j \in 1..Len(expIDs) : expIDs[j] = extract(member)

RECURSIVE DeleteLoop(_, _, _)
\* the Outer loop over ids
DeleteLoop(ids, expIDs, uKey) ==
    IF ids = <<>> THEN <<>>
    ELSE (IF Excepted(Head(ids), expIDs) THEN <<>>
          ELSE <<[cmd |-> "DEL", key |-> Head(ids)]>>
               \o (IF Len(expIDs) > 0
                   THEN <<[cmd |-> "ZREM", key |-> uKey, member |-> Head(ids)]>>
                   ELSE <<>>))
         \o DeleteLoop(Tail(ids), expIDs, uKey)

\* the commands DeleteByUserKey queues
DeleteByUserKeyQueue(r) ==
    LET uKey == key(TRUE, r.key) IN
    DeleteLoop(r.ids, r.expIDs, uKey)
    \o (IF Len(r.expIDs) = 0 \/ Len(r.ids) = 0
        THEN <<[cmd |-> "DEL", key |-> uKey]>> ELSE <<>>)

DeleteByUserKeyExec(c) ==
    /\ At(c, "DeleteByUserKey", "exec")
    /\ Exec(c, DeleteByUserKeyQueue(cl[c]))

\* what DeleteByID does and returns when every command is served, one after
\* the other and with no other client, from keyspace d at millisecond ms
DeleteByID(d, id, ms) ==
    LET vv == HGETALL(d, key(FALSE, id)) IN
    IF DOMAIN vv = {} THEN [db |-> d, err |-> "nil"]
    ELSE IF parseFails(vv) THEN [db |-> d, err |-> "parse"]
    ELSE LET uKey == key(TRUE, parse(vv).UserKey)
             r == [id |-> id, uKey |-> uKey, ids |-> ZRANGEBYSCORE(d, uKey)]
         IN [db |-> ApplyAll(Result(d, {}), DeleteByIDQueue(r), ms).db, err |-> "nil"]

\* the same for DeleteByUserKey
DeleteByUserKey(d, u, expIDs, ms) ==
    LET r == [key |-> u, expIDs |-> expIDs, ids |-> ZRANGEBYSCORE(d, key(TRUE, u))]
    IN [db |-> ApplyAll(Result(d, {}), DeleteByUserKeyQueue(r), ms).db, err |-> "nil"]

\* ------------------------------------------------------------- environment
\* mutant: the error of the failed command is dropped
CmdFailDropped(c) ==
    /\ cl[c].pc \notin {"idle", "done"}
    /\ Local(c, [Return(c, cl[c], "nil") EXCEPT
                    !.closed = Close(cl[c].multi \/ cl[c].pc = "multi",
                                     \/ cl[c].watched # {}
                                     \/ cl[c].pc \in {"watchS", "watchU"})])

\* a command before EXEC fails, at pc "exec" one of those queued after MULTI:
\* the method returns the error. The connection has noted a WATCH or a MULTI
\* that was sent, failed or not.
CmdFail(c) ==
    /\ cl[c].pc \notin {"idle", "done"}
    /\ Local(c, [Return(c, cl[c], "cmd") EXCEPT
                    !.closed = Close(cl[c].multi \/ cl[c].pc = "multi",
                                     \/ cl[c].watched # {}
                                     \/ cl[c].pc \in {"watchS", "watchU"})])

\* The clock advances one tick; keys past their expiration are gone. Whether
\* the expiry of a watched key aborts the watcher's EXEC depends on the server
\* version, so both happen.
Expired(d, t) == {k \in DOMAIN d : d[k].exp # NoExp /\ d[k].exp < NowMs(t)}

Tick ==
    /\ now < MaxTime
    /\ now' = now + 1
    /\ LET gone == Expired(db, now + 1) IN
       /\ db' = [k \in DOMAIN db \ gone |-> db[k]]
       /\ \E touch \in BOOLEAN : cl' = IF touch THEN Touch(gone) ELSE cl
    /\ UNCHANGED <<prefix, ops>>

\* -------------------------------------------------------------------- Next
CreateStep(c) ==
    \/ CreateWatchS(c)
    \/ CreateWatchU(c)
    \/ CreateExists(c)
    \/ CreatePTTL(c)
    \/ CreateMulti(c)
    \/ CreateExec(c)

Step(c) ==
    \/ CreateStep(c)
    \/ FetchByIDBegin(c)
    \/ FetchByIDHGetAll(c)
    \/ FetchByUserKeyBegin(c)
    \/ FetchByUserKeyZRange(c)
    \/ FetchByUserKeyHGetAll(c)
    \/ DeleteByIDBegin(c)
    \/ DeleteByIDWatchS(c)
    \/ DeleteByIDHGetAll(c)
    \/ DeleteByIDWatchU(c)
    \/ DeleteByIDZRange(c)
    \/ DeleteByIDMulti(c)
    \/ DeleteByIDExec(c)
    \/ DeleteByUserKeyBegin(c)
    \/ DeleteByUserKeyWatchU(c)
    \/ DeleteByUserKeyZRange(c)
    \/ DeleteByUserKeyMulti(c)
    \/ DeleteByUserKeyExec(c)
    \/ CmdFail(c)

\* Spec: two clients on one store, any interleaving of their commands and of
\* the clock.
Init ==
    /\ prefix = <<"p">>
    /\ now = 0
    /\ db = <<>>
    /\ cl = [c \in Clients |-> Idle]
    /\ ops = 0

Next == (\E c \in Clients : CreateBegin(c, Sessions) \/ Step(c)) \/ Tick

Spec == Init /\ [][Next]_vars

\* SpecSeq: one client, its calls one after the other, under every prefix and
\* with sessions of every profile.
InitSeq ==
    /\ prefix \in Prefixes
    /\ now = 0
    /\ db = <<>>
    /\ cl = [c \in Clients |-> Idle]
    /\ ops = 0

NextSeq == CreateBegin("c1", SessionsOf(SeqProfiles)) \/ Step("c1") \/ Tick

SpecSeq == InitSeq /\ [][NextSeq]_vars

\* SpecDup: the two clients only create, sessions that are not yet expired,
\* and the clock stands still.
NextDup == \E c \in Clients : CreateBegin(c, LiveSessions) \/ CreateStep(c)

SpecDup == Init /\ [][NextDup]_vars

\* SpecReuse: one client, MaxReuseOps calls one after the other, long enough
\* for a session ID to be created again after its record has expired.
InitReuse ==
    /\ prefix = <<"p">>
    /\ now = 0
    /\ db = <<>>
    /\ cl = [c \in Clients |-> Idle]
    /\ ops = MaxOps - MaxReuseOps

NextReuse == CreateBegin("c1", LongSessions) \/ Step("c1") \/ Tick

SpecReuse == InitReuse /\ [][NextReuse]_vars

\* SpecStored: the store opened on a keyspace that already holds records, some
\* of them not as Create writes them: a time field absent, or "123" in its
\* place. One client fetches and deletes, one call after the other.
StoredSession(id) ==
    [ID |-> id, UserKey |-> <<"x">>,
     CreatedAt |-> ZeroTime, ExpiresAt |-> [nano |-> MaxExp, zone |-> 0],
     IP |-> NilIP, OS |-> <<"gnu/linux">>, Browser |-> <<"firefox">>,
     Meta |-> NilMeta]

Shapes == {"none", "good", "noCreated", "badCreated", "noExpires", "badExpires"}

\* the reply of HGETALL for a record of the given shape
StoredHash(id, shape) ==
    LET h == HashOf(StoredSession(id), <<>>) IN
    CASE shape = "good" -> h
      [] shape = "noCreated" -> [f \in HashFields \ {"created_at"} |-> h[f]]
      [] shape = "badCreated" -> [h EXCEPT !["created_at"] = <<"123">>]
      [] shape = "noExpires" -> [f \in HashFields \ {"expires_at"} |-> h[f]]
      [] shape = "badExpires" -> [h EXCEPT !["expires_at"] = <<"123">>]

\* the keyspace holding a record of shape shapeOf[id] per ID and the index of
\* user "x" with the given scores
StoredDb(shapeOf, scores) ==
    LET held == {id \in IDs : shapeOf[id] # "none"}
        uKey == key(TRUE, <<"x">>)
        keys == {key(FALSE, id) : id \in held}
                \cup (IF DOMAIN scores = {} THEN {} ELSE {uKey})
    IN [k \in keys |->
           IF k = uKey
           THEN [type |-> "zset",
                 val |-> [m \in {key(FALSE, id) : id \in DOMAIN scores} |->
                             scores[CHOOSE id \in DOMAIN scores : key(FALSE, id) = m]],
                 exp |-> NoExp]
           ELSE [type |-> "hash",
                 val |-> LET id == CHOOSE i \in held : key(FALSE, i) = k
                         IN StoredHash(id, shapeOf[id]),
                 exp |-> NoExp]]

StoredScores == UNION {[I -> 1..MaxExp] : I \in SUBSET IDs}

InitStored ==
    /\ prefix = <<"p">>
    /\ now = 0
    /\ db \in {StoredDb(shapeOf, scores) : shapeOf \in [IDs -> Shapes],
                                           scores \in StoredScores}
    /\ cl = [c \in Clients |-> Idle]
    /\ ops = 0

NextStored ==
    \/ FetchByIDBegin("c1")
    \/ FetchByIDHGetAll("c1")
    \/ FetchByUserKeyBegin("c1")
    \/ FetchByUserKeyZRange("c1")
    \/ FetchByUserKeyHGetAll("c1")
    \/ DeleteByIDBegin("c1")
    \/ DeleteByIDWatchS("c1")
    \/ DeleteByIDHGetAll("c1")
    \/ DeleteByIDWatchU("c1")
    \/ DeleteByIDZRange("c1")
    \/ DeleteByIDMulti("c1")
    \/ DeleteByIDExec("c1")

SpecStored == InitStored /\ [][NextStored]_vars

\* SpecPair: a store left by up to MaxSeeds committed Creates, then one
\* DeleteByUserKey without exceptions by each of the two clients, their
\* commands interleaved with each other and with the clock, no other writer.
SeedSessions ==
    {[s EXCEPT !.ExpiresAt.nano = e] : s \in Sessions,
                                       e \in {1, MaxExp, MaxTime + MaxExp}}

RECURSIVE Seeded(_)
Seeded(n) ==
    IF n = 0 THEN {<<>>}
    ELSE LET D == Seeded(n - 1) IN
         D \cup UNION {{Create(d, s, o, 0).db : o \in Orders(DOMAIN s.Meta)} :
                            d \in D, s \in SeedSessions}

InitPair ==
    /\ prefix = <<"p">>
    /\ now = 0
    /\ db \in Seeded(MaxSeeds)
    /\ cl = [c \in Clients |-> Idle]
    /\ ops = MaxOps - 2

NextPair ==
    \/ \E c \in Clients :
          \/ cl[c].pc = "idle" /\ DeleteByUserKeyBegin(c) /\ cl'[c].expIDs = <<>>
          \/ DeleteByUserKeyWatchU(c)
          \/ DeleteByUserKeyZRange(c)
          \/ DeleteByUserKeyMulti(c)
          \/ DeleteByUserKeyExec(c)
    \/ Tick

SpecPair == InitPair /\ [][NextPair]_vars

\* SpecMix: the same stores, then one DeleteByID by client c1 and one Create
\* by client c2, their commands interleaved with each other and with the clock.
NextMix ==
    \/ cl["c1"].pc = "idle" /\ DeleteByIDBegin("c1")
    \/ DeleteByIDWatchS("c1")
    \/ DeleteByIDHGetAll("c1")
    \/ DeleteByIDWatchU("c1")
    \/ DeleteByIDZRange("c1")
    \/ DeleteByIDMulti("c1")
    \/ DeleteByIDExec("c1")
    \/ cl["c2"].pc = "idle" /\ CreateBegin("c2", SeedSessions)
    \/ CreateStep("c2")
    \/ Tick

SpecMix == InitPair /\ [][NextMix]_vars

\* SpecLive: a store left by fewer committed Creates, then one call of one
\* client. A call that has started goes on: each command it sends is answered,
\* by a reply or by an error.
InitLive ==
    /\ prefix = <<"p">>
    /\ now = 0
    /\ db \in Seeded(MaxSeeds - 1)
    /\ cl = [c \in Clients |-> Idle]
    /\ ops = MaxOps - 1

\* the call of client c has started and has not returned
Running(c) == cl[c].pc \notin {"idle", "done"}

\* a step of the running call of c: one of its commands fails, or it goes on
\* in any other way; the clock has its own steps
Advance(c) ==
    /\ Running(c)
    /\ now' = now
    /\ CmdFail(c) \/ cl'[c] # cl[c]

NextLive == CreateBegin("c1", SeedSessions) \/ Step("c1") \/ Tick

SpecLive == InitLive /\ [][NextLive]_vars /\ WF_vars(Advance("c1"))

\* ------------------------------------------------------------------ claims
\* equality of two sessions field by field: instants by Time.Equal, addresses
\* by IP.Equal, maps by their entries
SessionEqual(a, b) ==
    /\ a.ID = b.ID
    /\ a.UserKey = b.UserKey
    /\ a.CreatedAt.nano = b.CreatedAt.nano
    /\ a.ExpiresAt.nano = b.ExpiresAt.nano
    /\ IPEqual(a.IP, b.IP)
    /\ a.OS = b.OS
    /\ a.Browser = b.Browser
    /\ a.Meta = b.Meta

Members(d, k) == IF Exists(d, k) THEN DOMAIN d[k].val ELSE {}
Scores(d, k) == IF Exists(d, k) THEN d[k].val ELSE EmptyMap
IDOf(member) == CHOOSE id \in IDs : key(FALSE, id) = member
IDsOf(ss) == {ss[i].ID : i \in 1..Len(ss)}

\* C1: a Create that returns nil for a session that has not expired is
\* followed at once by a FetchByID that finds a record equal to the input.
C1_CreateThenFetch ==
    [][\A c \in Clients :
        (/\ CreateExec(c)
         /\ cl'[c].err = "nil"
         /\ UnixNano(cl[c].s.ExpiresAt) \div Millisecond > NowMs(now))
        => LET f == FetchByID(db', cl[c].s.ID) IN
           f.found /\ f.err = "nil" /\ SessionEqual(f.res, cl[c].s)]_vars

\* C2: a Create whose EXISTS finds the session key returns ErrDuplicateID and
\* leaves every key, field, member, score and expiration as it was.
C2_DuplicateLeavesStore ==
    [][\A c \in Clients :
        (CreateExists(c) /\ Exists(db, sKeyOf(cl[c])))
        => (/\ cl'[c].pc = "done"
            /\ cl'[c].err = "ErrDuplicateID"
            /\ db' = db)]_vars

C2_Witness ==
    \E c \in Clients :
        /\ cl[c].op = "Create" /\ cl[c].pc = "done"
        /\ cl[c].err = "ErrDuplicateID"
        /\ Exists(db, sKeyOf(cl[c]))

\* C3: a Create, DeleteByID or DeleteByUserKey whose EXEC was answered with
\* the nil reply (the transaction was discarded) returns a non-nil error.
C3_AbortedExecIsError ==
    \A c \in Clients :
        (cl[c].pc = "done" /\ cl[c].reply = "nil") => cl[c].err # "nil"

\* C4: of two Create calls with the same session ID at most one returns nil,
\* and the stored record is the input of a call that returned nil.
C4_OneCreateWins ==
    /\ \A c, e \in Clients :
        (/\ c # e
         /\ cl[c].op = "Create" /\ cl[c].pc = "done" /\ cl[c].err = "nil"
         /\ cl[e].op = "Create" /\ cl[e].pc = "done" /\ cl[e].err = "nil")
        => cl[c].s.ID # cl[e].s.ID
    /\ \A c \in Clients :
        (cl[c].op = "Create" /\ cl[c].pc = "done" /\ cl[c].err = "nil")
        => \E e \in Clients :
              /\ cl[e].op = "Create" /\ cl[e].pc = "done" /\ cl[e].err = "nil"
              /\ cl[e].s.ID = cl[c].s.ID
              /\ FetchByID(db, cl[c].s.ID).found
              /\ SessionEqual(FetchByID(db, cl[c].s.ID).res, cl[e].s)

\* C5: when DeleteByID returns nil for a session it found, FetchByID reports
\* that ID not found with a nil error and FetchByUserKey of the owner lists
\* no session with that ID.
C5_DeletedIsGone ==
    [][\A c \in Clients :
        (DeleteByIDExec(c) /\ cl'[c].err = "nil")
        => (/\ ~FetchByID(db', cl[c].id).found
            /\ FetchByID(db', cl[c].id).err = "nil"
            /\ cl[c].id \notin IDsOf(FetchIndex(db', cl[c].uKey).ss))]_vars

\* C6: a DeleteByUserKey with exceptions that returns nil has deleted the
\* record of every listed session that is not excepted, kept the record of
\* every listed session that is excepted, and left the index listing exactly
\* the excepted members with their scores.
C6_ExceptionsKept ==
    [][\A c \in Clients :
        (DeleteByUserKeyExec(c) /\ cl[c].expIDs # <<>> /\ cl'[c].err = "nil")
        => LET uKey == key(TRUE, cl[c].key)
               S == Members(db, uKey)
               kept == {m \in S : IDOf(m) \in Range(cl[c].expIDs)}
           IN /\ \A m \in S \ kept : ~Exists(db', m)
              /\ \A m \in kept : Exists(db, m) => (Exists(db', m) /\ db'[m] = db[m])
              /\ Members(db', uKey) = kept
              /\ \A m \in kept : Scores(db', uKey)[m] = Scores(db, uKey)[m]]_vars

\* C7: a DeleteByUserKey without exceptions that returns nil has deleted the
\* record of every member of the index and the index key; FetchByUserKey then
\* returns the empty list with a nil error and FetchByID finds none of them.
C7_AllDeleted ==
    [][\A c \in Clients :
        (DeleteByUserKeyExec(c) /\ cl[c].expIDs = <<>> /\ cl'[c].err = "nil")
        => LET uKey == key(TRUE, cl[c].key) IN
           /\ ~Exists(db', uKey)
           /\ \A m \in Members(db, uKey) :
                 ~Exists(db', m) /\ ~FetchByID(db', IDOf(m)).found
           /\ FetchByUserKey(db', cl[c].key) = [ss |-> <<>>, err |-> "nil"]]_vars

\* C8: a DeleteByID whose transaction is applied while the owner's index lists
\* the deleted session and nothing else leaves no index key; FetchByUserKey of
\* the owner then returns the empty list with a nil error.
C8_LastSessionDropsIndex ==
    [][\A c \in Clients :
        (/\ DeleteByIDExec(c)
         /\ cl'[c].reply = "ok"
         /\ Members(db, cl[c].uKey) = {key(FALSE, cl[c].id)})
        => (/\ ~Exists(db', cl[c].uKey)
            /\ ~Exists(db', key(FALSE, cl[c].id))
            /\ FetchIndex(db', cl[c].uKey) = [ss |-> <<>>, err |-> "nil"])]_vars

C8_Witness ==
    \E c \in Clients :
        /\ cl[c].op = "DeleteByID" /\ cl[c].pc = "done" /\ cl[c].reply = "ok"
        /\ cl[c].ids = <<key(FALSE, cl[c].id)>>
        /\ ~Exists(db, cl[c].uKey)

\* C9: a turn of FetchByUserKey's loop that finds no hash under the member
\* skips it: no error, the list as it was, the loop goes on or ends with a nil
\* error; a turn that finds a well-formed hash appends its session.
C9_MissingMemberSkipped ==
    [][\A c \in Clients :
        FetchByUserKeyHGetAll(c)
        => LET r == cl[c]
               vv == HGETALL(db, r.ids[r.i])
           IN /\ cl'[c].err = "nil"
              /\ cl'[c].ss = IF DOMAIN vv = {} THEN r.ss ELSE Append(r.ss, parse(vv))
              /\ IF r.i = Len(r.ids) THEN cl'[c].pc = "done"
                 ELSE cl'[c].pc = "hgetall" /\ cl'[c].i = r.i + 1]_vars

C9_Witness ==
    \E c \in Clients :
        /\ cl[c].op = "FetchByUserKey" /\ cl[c].pc = "done" /\ cl[c].err = "nil"
        /\ Len(cl[c].ss) >= 1
        /\ Len(cl[c].ss) < Len(cl[c].ids)

\* C10: FetchByID of an ID with no session key (HGETALL answers no field)
\* returns the zero session, found = false and a nil error.
C10_AbsentIsNotFound ==
    [][\A c \in Clients :
        (FetchByIDHGetAll(c) /\ DOMAIN HGETALL(db, key(FALSE, cl[c].id)) = {})
        => (/\ cl'[c].pc = "done"
            /\ cl'[c].res = ZeroSession
            /\ ~cl'[c].found
            /\ cl'[c].err = "nil")]_vars

C10_Witness ==
    \E c \in Clients :
        /\ cl[c].op = "FetchByID" /\ cl[c].pc = "done"
        /\ ~cl[c].found /\ cl[c].err = "nil"
        /\ ~Exists(db, key(FALSE, cl[c].id))

\* C11: FetchByID of an existing hash whose created_at or expires_at is absent
\* or not RFC 3339 returns the zero session, found = false and the error of
\* parse.
C11_MalformedIsParseError ==
    [][\A c \in Clients :
        LET vv == HGETALL(db, key(FALSE, cl[c].id)) IN
        (/\ FetchByIDHGetAll(c)
         /\ DOMAIN vv # {}
         /\ \/ ~IsRFC3339(Field(vv, "created_at"))
            \/ ~IsRFC3339(Field(vv, "expires_at")))
        => (/\ cl'[c].pc = "done"
            /\ cl'[c].err = "parse"
            /\ ~cl'[c].found
            /\ cl'[c].res = ZeroSession)]_vars

C11_Witness ==
    \E c \in Clients :
        /\ cl[c].op = "FetchByID" /\ cl[c].pc = "done"
        /\ cl[c].err = "parse" /\ ~cl[c].found
        /\ Exists(db, key(FALSE, cl[c].id))
        /\ "expires_at" \notin DOMAIN db[key(FALSE, cl[c].id)].val

\* C12: FetchByUserKey returns the error of parse and no list as soon as the
\* loop reaches a member whose existing hash fails to parse, whatever its
\* position and whatever was collected before; such a member is never skipped.
C12_MalformedAbortsFetch ==
    [][\A c \in Clients :
        LET r == cl[c]
            vv == HGETALL(db, r.ids[r.i])
        IN (/\ FetchByUserKeyHGetAll(c)
            /\ DOMAIN vv # {}
            /\ \/ ~IsRFC3339(Field(vv, "created_at"))
               \/ ~IsRFC3339(Field(vv, "expires_at")))
           => (/\ cl'[c].pc = "done"
               /\ cl'[c].err = "parse"
               /\ cl'[c].ss = <<>>)]_vars

C12_Witness ==
    \E c \in Clients :
        /\ cl[c].op = "FetchByUserKey" /\ cl[c].pc = "done"
        /\ cl[c].err = "parse" /\ cl[c].ss = <<>>
        /\ Len(cl[c].ids) = 2
        /\ ~parseFails(HGETALL(db, cl[c].ids[1]))
        /\ Exists(db, cl[c].ids[1])
        /\ parseFails(HGETALL(db, cl[c].ids[2]))

\* C13: a call of any of the five methods that gets no connection returns the
\* error at once: no command was sent (nothing watched, no MULTI, no reply,
\* nothing for Close to undo) and no key changed.
C13_NoConnNoEffect ==
    [][\A c \in Clients :
        (/\ cl[c].pc \in {"idle", "done"}
         /\ ops' = ops + 1
         /\ cl'[c] # cl[c]
         /\ ~cl'[c].conn)
        => (/\ cl'[c].pc = "done"
            /\ cl'[c].err = "conn"
            /\ cl'[c].reply = "none"
            /\ cl'[c].closed = "none"
            /\ cl'[c].watched = {} /\ ~cl'[c].multi
            /\ db' = db)]_vars

C13_Witness ==
    /\ DOMAIN db # {}
    /\ cl["c1"].op = "DeleteByUserKey" /\ cl["c1"].pc = "done"
    /\ ~cl["c1"].conn /\ cl["c1"].err = "conn"
    /\ cl["c2"].op = "Create" /\ cl["c2"].pc = "done"
    /\ ~cl["c2"].conn /\ cl["c2"].err = "conn"

TxOps == {"Create", "DeleteByID", "DeleteByUserKey"}

\* C14: when Create, DeleteByID or DeleteByUserKey returns, its connection
\* watches no key and has no MULTI block open; a return inside a MULTI block
\* without EXEC sent DISCARD, a return after a WATCH and before MULTI sent
\* UNWATCH.
C14_NothingHeldOnReturn ==
    [][\A c \in Clients :
        (/\ cl[c].op \in TxOps
         /\ cl[c].pc \notin {"idle", "done"}
         /\ cl'[c].pc = "done")
        => (/\ cl'[c].watched = {}
            /\ ~cl'[c].multi
            /\ ~cl'[c].dirty
            /\ (cl[c].multi /\ cl'[c].reply = "none") => cl'[c].closed = "DISCARD"
            /\ (~cl[c].multi /\ cl[c].pc # "multi" /\ cl[c].watched # {})
               => cl'[c].closed = "UNWATCH")]_vars

C14_Witness ==
    /\ cl["c1"].op = "Create" /\ cl["c1"].pc = "done"
    /\ cl["c1"].err = "ErrDuplicateID" /\ cl["c1"].closed = "UNWATCH"
    /\ cl["c2"].op = "DeleteByUserKey" /\ cl["c2"].pc = "done"
    /\ cl["c2"].err = "cmd" /\ cl["c2"].closed = "DISCARD"
    /\ cl["c1"].watched = {} /\ cl["c2"].watched = {}

\* C15: a DeleteByID whose HGETALL finds no session key returns nil there: no
\* MULTI was sent, Close only has the WATCH to undo, and no key has changed.
C15_DeleteAbsentIsNoop ==
    [][\A c \in Clients :
        (/\ DeleteByIDHGetAll(c)
         /\ DOMAIN HGETALL(db, key(FALSE, cl[c].id)) = {})
        => (/\ cl'[c].pc = "done"
            /\ cl'[c].err = "nil"
            /\ cl'[c].reply = "none"
            /\ cl'[c].closed = "UNWATCH"
            /\ db' = db)]_vars

C15_Witness ==
    \E c \in Clients :
        /\ cl[c].op = "DeleteByID" /\ cl[c].pc = "done"
        /\ cl[c].err = "nil" /\ cl[c].reply = "none" /\ cl[c].closed = "UNWATCH"
        /\ ~Exists(db, key(FALSE, cl[c].id))
        /\ \E id \in IDs : Exists(db, key(FALSE, id))
        /\ \E u \in UserKeys : Exists(db, key(TRUE, u))

\* C16: a DeleteByUserKey that found no index under the user key returns nil,
\* with or without exceptions, and leaves every key as it was.
C16_DeleteNoIndexIsNoop ==
    [][\A c \in Clients :
        (/\ DeleteByUserKeyZRange(c) \/ DeleteByUserKeyExec(c)
         /\ cl'[c].pc = "done"
         /\ \/ cl[c].pc = "zrange" /\ ~Exists(db, key(TRUE, cl[c].key))
            \/ cl[c].pc = "exec" /\ cl[c].ids = <<>>)
        => (/\ cl'[c].err = "nil"
            /\ db' = db)]_vars

C16_Witness ==
    /\ cl["c1"].op = "DeleteByUserKey" /\ cl["c1"].pc = "done"
    /\ cl["c1"].err = "nil" /\ cl["c1"].reply = "ok" /\ cl["c1"].ids = <<>>
    /\ cl["c1"].expIDs # <<>>
    /\ ~Exists(db, key(TRUE, cl["c1"].key))
    /\ \E id \in IDs : Exists(db, key(FALSE, id))
    /\ \E u \in UserKeys : Exists(db, key(TRUE, u))

IndexKeys(d) == {k \in DOMAIN d : d[k].type = "zset"}
HashKeys(d) == {k \in DOMAIN d : d[k].type = "hash"}

\* C17: every existing index expires no earlier than every existing session
\* record it lists.
C17_IndexOutlivesSessions ==
    \A u \in IndexKeys(db) :
        /\ db[u].exp # NoExp
        /\ \A m \in DOMAIN db[u].val :
              Exists(db, m) => (db[m].exp # NoExp /\ db[u].exp >= db[m].exp)

\* C18: a committed DeleteByID or DeleteByUserKey leaves no index listing a
\* session record it removed; members without a record are those whose record
\* expired.
C18_NoMemberOfDeletedRecord ==
    [][\A c \in Clients :
        (/\ DeleteByIDExec(c) \/ DeleteByUserKeyExec(c)
         /\ cl'[c].reply = "ok")
        => \A k \in HashKeys(db) \ HashKeys(db') :
              \A u \in IndexKeys(db') : k \notin DOMAIN db'[u].val]_vars

\* the record under k is listed, under its own key, in the index of the user
\* key its hash holds, with the expiration time its hash holds as score
Indexed(d, k) ==
    LET vv == d[k].val
        uKey == key(TRUE, Field(vv, "user_key"))
    IN /\ k = key(FALSE, Field(vv, "id"))
       /\ k \in Members(d, uKey)
       /\ IsRFC3339(Field(vv, "expires_at"))
       /\ Scores(d, uKey)[k] = UnixNano(Parse(Field(vv, "expires_at")))

\* C19 as stated: every existing session record is a member of the index of
\* the user key in its hash, with its expiration time in nanoseconds as score.
C19_RecordIsIndexed ==
    \A k \in HashKeys(db) : Indexed(db, k)

\* C19, amended: every session record that is not in the last millisecond of
\* its life is a member of the index of the user key in its hash, with its
\* expiration time in nanoseconds as score.
C19_UnexpiredRecordIsIndexed ==
    \A k \in HashKeys(db) : db[k].exp > NowMs(now) => Indexed(db, k)

C19_Witness ==
    /\ \A c \in Clients :
          cl[c].op = "Create" /\ cl[c].pc = "done" /\ cl[c].reply = "ok"
    /\ Cardinality(HashKeys(db)) = 2
    /\ \A k \in HashKeys(db) : db[k].exp > NowMs(now) /\ Indexed(db, k)

\* C20: every existing session hash holds every field with created_at and
\* expires_at that parse, and no FetchByID, FetchByUserKey or DeleteByID has
\* returned the error of parse.
C20_StoredRecordsParse ==
    /\ \A k \in HashKeys(db) :
          HashFields \subseteq DOMAIN db[k].val /\ ~parseFails(db[k].val)
    /\ \A c \in Clients : cl[c].err # "parse"

\* C21: every existing key, session hash or user index, has an expiration;
\* a committed Create leaves its two keys with one or without existence, and a
\* committed delete leaves the expiration of every key it keeps as it was.
C21_EveryKeyExpires ==
    /\ \A k \in DOMAIN db : db[k].exp # NoExp
    /\ \A c \in Clients :
          (cl[c].op = "Create" /\ cl[c].pc = "done" /\ cl[c].reply = "ok")
          => \A k \in {sKeyOf(cl[c]), uKeyOf(cl[c])} :
                Exists(db, k) => db[k].exp # NoExp

C21_Witness ==
    /\ \E c \in Clients :
          cl[c].op = "DeleteByID" /\ cl[c].pc = "done" /\ cl[c].reply = "ok"
    /\ \E c \in Clients :
          cl[c].op = "Create" /\ cl[c].pc = "done" /\ cl[c].reply = "ok"
    /\ \E u \in IndexKeys(db) : db[u].exp # NoExp
    /\ \E k \in HashKeys(db) : db[k].exp # NoExp

\* C22: the list FetchByUserKey returns is sorted by non-decreasing expiration
\* time of the returned sessions, and is empty with a nil error when the index
\* has no member.
C22_FetchSortedByExpiration ==
    \A c \in Clients :
        (cl[c].op = "FetchByUserKey" /\ cl[c].pc = "done" /\ cl[c].err = "nil")
        => /\ \A i, j \in 1..Len(cl[c].ss) :
                 i < j => cl[c].ss[i].ExpiresAt.nano <= cl[c].ss[j].ExpiresAt.nano
           /\ cl[c].ids = <<>> => cl[c].ss = <<>>

\* C23: DeleteByID and DeleteByUserKey are idempotent: on every reachable
\* keyspace, for every ID, user key and exception list, the delete run twice
\* in a row succeeds both times and leaves the keyspace the first run left.
C23_DeleteTwiceIsDeleteOnce ==
    /\ \A id \in IDs :
          LET once == DeleteByID(db, id, NowMs(now))
              twice == DeleteByID(once.db, id, NowMs(now))
          IN once.err = "nil" /\ twice.err = "nil" /\ twice.db = once.db
    /\ \A u \in UserKeys, e \in ExpLists :
          LET once == DeleteByUserKey(db, u, e, NowMs(now))
              twice == DeleteByUserKey(once.db, u, e, NowMs(now))
          IN once.err = "nil" /\ twice.err = "nil" /\ twice.db = once.db

\* C24: when two DeleteByUserKey(u) calls without exceptions, run by the two
\* clients with no other writer, have both returned success, no session record
\* that a call found listed in u's index exists and u has no index key.
C24_BothDeletesLeaveNothing ==
    \A u \in UserKeys :
        (\A c \in Clients :
            /\ cl[c].op = "DeleteByUserKey" /\ cl[c].pc = "done"
            /\ cl[c].key = u /\ cl[c].expIDs = <<>> /\ cl[c].err = "nil")
        => /\ ~Exists(db, key(TRUE, u))
           /\ \A c \in Clients : \A m \in Range(cl[c].ids) : ~Exists(db, m)

\* C25: in Create, DeleteByID and DeleteByUserKey no WATCH is sent after MULTI,
\* every read a decision rests on (EXISTS, PTTL, HGETALL, ZRANGEBYSCORE) is
\* sent after the WATCH of the key it reads and before MULTI, and a key
\* changes only by the EXEC of an open MULTI block (or by its own expiry).
C25_WatchReadMultiExec ==
    [][/\ \A c \in Clients :
            /\ (cl'[c].watched # cl[c].watched /\ cl'[c].watched # {})
               => (~cl[c].multi /\ ~cl'[c].multi)
            /\ CreateExists(c) => (sKeyOf(cl[c]) \in cl[c].watched /\ ~cl[c].multi)
            /\ CreatePTTL(c) => (uKeyOf(cl[c]) \in cl[c].watched /\ ~cl[c].multi)
            /\ DeleteByIDHGetAll(c)
               => (key(FALSE, cl[c].id) \in cl[c].watched /\ ~cl[c].multi)
            /\ DeleteByIDZRange(c) => (cl[c].uKey \in cl[c].watched /\ ~cl[c].multi)
            /\ DeleteByUserKeyZRange(c)
               => (key(TRUE, cl[c].key) \in cl[c].watched /\ ~cl[c].multi)
       /\ (db' # db /\ now' = now)
          => \E c \in Clients :
                /\ cl[c].op \in TxOps /\ cl[c].pc = "exec" /\ cl[c].multi
                /\ cl'[c].pc = "done" /\ cl'[c].reply = "ok"]_vars

C25_Witness ==
    /\ cl["c1"].op = "DeleteByID" /\ cl["c1"].pc = "exec" /\ cl["c1"].multi
    /\ cl["c1"].watched = {key(FALSE, cl["c1"].id), cl["c1"].uKey}
    /\ cl["c1"].ids # <<>>

\* the commands of each transactional method, in the order of its code
Path(op) ==
    CASE op = "Create" ->
            <<"watchS", "watchU", "exists", "pttl", "multi", "exec", "done">>
      [] op = "DeleteByID" ->
            <<"watchS", "hgetall", "watchU", "zrange", "multi", "exec", "done">>
      [] op = "DeleteByUserKey" -> <<"watchU", "zrange", "multi", "exec", "done">>
Pos(op, pc) == CHOOSE i \in 1..Len(Path(op)) : Path(op)[i] = pc

\* C26: within one call of Create, DeleteByID or DeleteByUserKey the commands
\* only move forward: MULTI is sent once, EXEC is followed by the return
\* whatever its reply, and the WATCH/read/MULTI sequence is not run again.
C26_OneMultiOneExec ==
    [][\A c \in Clients :
          (cl[c].op \in TxOps /\ cl[c].pc # "done" /\ ops' = ops
           /\ cl'[c].pc # cl[c].pc)
          => /\ cl'[c].op = cl[c].op
             /\ Pos(cl[c].op, cl'[c].pc) > Pos(cl[c].op, cl[c].pc)
             /\ cl[c].pc = "exec" => cl'[c].pc = "done"
             /\ (cl'[c].multi /\ ~cl[c].multi) => cl[c].pc = "multi"]_vars

C26_Witness ==
    /\ cl["c1"].op \in TxOps /\ cl["c1"].pc = "done"
    /\ cl["c1"].reply = "nil" /\ cl["c1"].conn

\* the commands of the transactional methods that come before EXEC
BeforeExec(c) ==
    \/ CreateWatchS(c) \/ CreateWatchU(c) \/ CreateExists(c)
    \/ CreatePTTL(c) \/ CreateMulti(c)
    \/ DeleteByIDWatchS(c) \/ DeleteByIDHGetAll(c) \/ DeleteByIDWatchU(c)
    \/ DeleteByIDZRange(c) \/ DeleteByIDMulti(c)
    \/ DeleteByUserKeyWatchU(c) \/ DeleteByUserKeyZRange(c)
    \/ DeleteByUserKeyMulti(c)

\* C27: when a command of Create, DeleteByID or DeleteByUserKey fails before
\* EXEC, the call returns that error and no queued command is applied; no
\* command before the failure has changed a key either.
C27_FailureBeforeExec ==
    [][\A c \in Clients :
          /\ (CmdFail(c) /\ cl[c].op \in TxOps)
             => /\ cl'[c].pc = "done" /\ cl'[c].err = "cmd"
                /\ cl'[c].reply = "none" /\ db' = db
          /\ BeforeExec(c) => db' = db]_vars

C27_Witness ==
    /\ cl["c1"].op \in TxOps /\ cl["c1"].pc = "done" /\ cl["c1"].err = "cmd"
    /\ cl["c1"].closed = "DISCARD"
    /\ db # <<>>

\* the index of Create's user after the cleanup and the ZADD of a committed
\* Create by client c: the members scored after the captured 'now' with their
\* scores, and the session key scored with the session's expiration
Cleaned(c) ==
    LET uKey == uKeyOf(cl[c])
        kept == {m \in Members(db, uKey) : db[uKey].val[m] > cl[c].now}
    IN [m \in kept \cup {sKeyOf(cl[c])} |->
           IF m = sKeyOf(cl[c]) THEN UnixNano(cl[c].s.ExpiresAt)
           ELSE db[uKey].val[m]]

\* C28: a committed Create leaves the user's index with exactly the members
\* scored after the captured 'now' and the new session key, scored with the
\* session's expiration, also when that expiration is at or before 'now'.
C28_IndexAfterCreate ==
    [][\A c \in Clients :
          (CreateExec(c) /\ cl'[c].reply = "ok")
          => /\ Exists(db', uKeyOf(cl[c]))
             /\ db'[uKeyOf(cl[c])].val = Cleaned(c)]_vars

\* C28, amended: the same when the index's new expiration is later than the
\* server's millisecond at commit; otherwise the commit leaves no index.
C28_IndexAfterCreateUnlessDue ==
    [][\A c \in Clients :
          (CreateExec(c) /\ cl'[c].reply = "ok")
          => IF cl[c].uExpMilli > NowMs(now)
             THEN /\ Exists(db', uKeyOf(cl[c]))
                  /\ db'[uKeyOf(cl[c])].val = Cleaned(c)
             ELSE ~Exists(db', uKeyOf(cl[c]))]_vars

C28_Witness ==
    /\ cl["c1"].op = "Create" /\ cl["c1"].pc = "done" /\ cl["c1"].reply = "ok"
    /\ UnixNano(cl["c1"].s.ExpiresAt) <= now
    /\ sKeyOf(cl["c1"]) \in Members(db, uKeyOf(cl["c1"]))
    /\ Cardinality(Members(db, uKeyOf(cl["c1"]))) = 2
    /\ ~Exists(db, sKeyOf(cl["c1"]))

Max(a, b) == IF a > b THEN a ELSE b
ExpMs(r) == UnixNano(r.s.ExpiresAt) \div Millisecond

\* C29: Create reads the index's PTTL before MULTI, computes
\* max(now_ms + PTTL, s.ExpiresAt in ms) and a committed Create leaves the
\* index with that expiration (a time not in the future leaves no index). With
\* a negative PTTL and s expiring in the future that is s's expiration, and
\* the expiration of an index that existed is never brought forward.
C29_IndexExpiration ==
    [][\A c \in Clients :
          /\ CreatePTTL(c) => cl'[c].uExpMilli = PTTL(db, uKeyOf(cl[c]), now)
          /\ CreateMulti(c)
             => /\ cl'[c].uExpMilli
                     = Max(NowMs(now) + cl[c].uExpMilli, ExpMs(cl[c]))
                /\ (cl[c].uExpMilli < 0 /\ ExpMs(cl[c]) > NowMs(now))
                   => cl'[c].uExpMilli = ExpMs(cl[c])
          /\ (CreateExec(c) /\ cl'[c].reply = "ok")
             => /\ Exists(db', uKeyOf(cl[c])) <=> cl[c].uExpMilli > NowMs(now)
                /\ Exists(db', uKeyOf(cl[c]))
                   => db'[uKeyOf(cl[c])].exp = cl[c].uExpMilli
                /\ (Exists(db, uKeyOf(cl[c])) /\ Exists(db', uKeyOf(cl[c])))
                   => db'[uKeyOf(cl[c])].exp >= db[uKeyOf(cl[c])].exp]_vars

C29_Witness ==
    /\ cl["c1"].op = "Create" /\ cl["c1"].pc = "done" /\ cl["c1"].reply = "ok"
    /\ Exists(db, uKeyOf(cl["c1"]))
    /\ db[uKeyOf(cl["c1"])].exp > ExpMs(cl["c1"])
    /\ Exists(db, sKeyOf(cl["c1"]))

\* C30: a committed DeleteByID leaves no index when the index listed nothing
\* but the deleted session, and otherwise the index without that member, the
\* other members, their scores and the expiration as they were. The index is
\* deleted as a key only when the membership read was exactly that session,
\* and then no other session is listed at commit time.
C30_IndexAfterDeleteByID ==
    [][\A c \in Clients :
          (DeleteByIDExec(c) /\ cl'[c].reply = "ok")
          => LET uKey == cl[c].uKey
                 sKey == key(FALSE, cl[c].id)
                 M == Members(db, uKey)
             IN /\ IF M \subseteq {sKey} THEN ~Exists(db', uKey)
                   ELSE /\ Exists(db', uKey)
                        /\ db'[uKey].exp = db[uKey].exp
                        /\ db'[uKey].val = [m \in M \ {sKey} |-> db[uKey].val[m]]
                /\ cl[c].ids = <<sKey>> => M \subseteq {sKey}
                /\ M = {sKey} => cl[c].ids = <<sKey>>]_vars

C30_Witness ==
    /\ cl["c1"].op = "DeleteByID" /\ cl["c1"].pc = "done" /\ cl["c1"].reply = "ok"
    /\ cl["c2"].op = "Create" /\ cl["c2"].pc = "exec" /\ cl["c2"].dirty
    /\ uKeyOf(cl["c2"]) = cl["c1"].uKey
    /\ Len(cl["c1"].ids) = 2
    /\ Cardinality(Members(db, cl["c1"].uKey)) = 1

\* C31: under every prefix, extract gives back the ID that key(false, id) was
\* built from, so that DeleteByUserKey recognizes an excepted session.
C31_ExtractInvertsKey ==
    \A id \in IDs :
        /\ extract(key(FALSE, id)) = id
        /\ Excepted(key(FALSE, id), <<id>>)

\* C32: the sessions FetchByUserKey(u) returns all carry user key u.
C32_FetchedSessionsAreOwned ==
    \A c \in Clients :
        (cl[c].op = "FetchByUserKey" /\ cl[c].pc = "done" /\ cl[c].err = "nil")
        => \A i \in 1..Len(cl[c].ss) : cl[c].ss[i].UserKey = cl[c].key

\* C33: a committed DeleteByUserKey(u, ...) leaves every session record whose
\* stored user key is not u, and every index but u's, as it was.
C33_DeleteByUserKeyFrame ==
    [][\A c \in Clients :
          (DeleteByUserKeyExec(c) /\ cl'[c].reply = "ok")
          => \A k \in DOMAIN db :
                (\/ k \in HashKeys(db) /\ Field(db[k].val, "user_key") # cl[c].key
                 \/ k \in IndexKeys(db) /\ k # key(TRUE, cl[c].key))
                => (k \in DOMAIN db' /\ db'[k] = db[k])]_vars

\* C34: a committed Create stores a hash without the meta field when the
\* session's metadata map is empty, and with the map's entries as "key:value;"
\* pairs in the meta field otherwise.
C34_MetaFieldStored ==
    [][\A c \in Clients :
          (CreateExec(c) /\ cl'[c].reply = "ok" /\ Exists(db', sKeyOf(cl[c])))
          => LET vv == db'[sKeyOf(cl[c])].val
                 mm == cl[c].s.Meta
             IN IF DOMAIN mm = {} THEN "meta" \notin DOMAIN vv
                ELSE /\ "meta" \in DOMAIN vv
                     /\ \E o \in Orders(DOMAIN mm) : vv["meta"] = metaToString(mm, o)]_vars

\* C35: every call that has started returns; from the moment it has obtained
\* its connection until it returns it holds exactly that one connection, the
\* return releases it, and a call that obtained none holds and releases none.
C35_TerminatesAndReleases ==
    /\ \A c \in Clients : Running(c) ~> (cl[c].pc = "done")
    /\ [](\A c \in Clients :
             /\ Running(c) => (cl[c].conn /\ cl[c].held = 1)
             /\ ~Running(c) => cl[c].held = 0)
    /\ [][\A c \in Clients :
             /\ (Running(c) /\ cl'[c].pc = "done") => cl'[c].held = cl[c].held - 1
             /\ (~Running(c) /\ cl'[c].pc = "done" /\ ~cl'[c].conn)
                => cl'[c].held = cl[c].held]_vars

C35_Witness ==
    /\ cl["c1"].op = "FetchByUserKey" /\ cl["c1"].pc = "done" /\ cl["c1"].conn
    /\ Len(cl["c1"].ss) = 2 /\ cl["c1"].held = 0

====
